---- MODULE Spec2Model ----
(***************************************************************************)
(* Model of lib/airdrops/airdrop_manager.py (class AirdropManager).         *)
(*                                                                         *)
(* The manager runs on one asyncio event loop: every coroutine runs        *)
(* without interruption from one `await` of an external collaborator       *)
(* (Discord, MongoDB, the crypto backend) to the next, and coroutines      *)
(* interleave exactly at those points.  Each action below is one such      *)
(* uninterrupted stretch of a coroutine.                                   *)
(***************************************************************************)
EXTENDS Integers, Sequences, FiniteSets, TLC

\* ------------------------------------------------------------------ bounds
MaxEvents   == 2      \* messages the channel hands out (ids 1..MaxEvents)
MaxTime     == 2      \* last clock tick
MaxFailures == 1      \* external calls that may raise in one behaviour
MaxInFlight == 2      \* coroutines of the manager suspended at the same time

\* clock ticks per second: time.time() is a float, int(time.time()) drops
\* the fraction
Res == 2

\* the arguments new_airdrop is called with; channel 0 is None
Requests ==
    {[amount |-> 1, duration |-> 1, channel |-> 0],
     [amount |-> 2, duration |-> 2, channel |-> 2]}
NoRequest == [amount |-> 0, duration |-> 0, channel |-> 0, at |-> 0]

Sweepers == {"frame1", "frame2"}
Procs    == {"cancel", "resolve", "create"} \cup Sweepers

VARIABLES
    _state,        \* AirdropManager._state: dict[int, Airdrop], in insertion order
    db,            \* the airdrops collection of bot.db.db, in natural order
    now,           \* time.time(), in ticks of 1/Res second
    nextId,        \* id of the next message channel.send returns
    distributed,   \* Funds Backend: completed Airdrop.resolve calls per id
    unpinned,      \* Notifier: completed unpin calls of _remove per id
    cancelled,     \* Notifier: rendered cancellation embeds per id
    failures,      \* external calls that raised so far
    pc,            \* per coroutine: the await it is suspended at
    airdrop,       \* per coroutine: its local variable `airdrop`
    req,           \* new_airdrop in flight: its arguments, and the second
                   \* (at) in which _add_from_message read the clock
    fetched,       \* per sweep: the documents __fetch_db_state read
    to_resolve,    \* per sweep: the entries of to_resolve not yet dispatched
    due,           \* per sweep: ids the pass put in to_resolve
    retry,         \* per sweep: ids of `due` whose distribution had raised before
    failed,        \* ids whose distribution has raised
    last           \* the call that ended in the latest step, if one did

vars == <<_state, db, now, nextId, distributed, unpinned, cancelled, failures,
          pc, airdrop, req, fetched, to_resolve, due, retry, failed, last>>

Ids == 1..MaxEvents

\* ------------------------------------------------------------- data model
\* Airdrop(guild_id, channel_id, message_id, amount, end_time, entrants)
Airdrop(gid, cid, mid, amount, end_time, entrants) ==
    [guild_id |-> gid, channel_id |-> cid, message_id |-> mid,
     amount |-> amount, end_time |-> end_time, entrants |-> entrants]

\* None: an unassigned local, or what dict.get returns for an absent key
NoAirdrop == Airdrop(0, 0, 0, 0, 0, {})

\* Airdrop.from_message(message, amount, end_time, channel)
from_message(message, amount, end_time, channel) ==
    Airdrop(message.guild, IF channel = 0 THEN message.channel ELSE channel,
            message.id, amount, end_time, {})

\* Airdrop.to_db_dict()
to_db_dict(ad) ==
    [id |-> ad.message_id, gid |-> ad.guild_id, cid |-> ad.channel_id,
     amount |-> ad.amount, end_time |-> ad.end_time, entrants |-> ad.entrants]

\* the Airdrop(...) constructor call of __fetch_db_state
from_doc(doc) ==
    Airdrop(doc.gid, doc.cid, doc.id, doc.amount, doc.end_time, doc.entrants)

\* int(time.time())
int_time == now \div Res

\* Airdrop.ended and Airdrop.ends_in <= 0, evaluated at the current time
hasEnded(ad) == now >= ad.end_time * Res

\* ------------------------------------------------- dict and collection ops
RECURSIVE SelectSeqBy(_, _, _)
\* the entries of s whose key field f(e) differs from k, order kept
SelectSeqBy(s, k, i) ==
    IF i > Len(s) THEN <<>>
    ELSE (IF s[i].message_id = k THEN <<>> ELSE <<s[i]>>) \o SelectSeqBy(s, k, i + 1)

\* key in dict
DictHas(d, k) == \E i \in 1..Len(d) : d[i].message_id = k

\* dict.get(key) for a present key
DictGet(d, k) == d[CHOOSE i \in 1..Len(d) : d[i].message_id = k]

\* del dict[key]
DictDel(d, k) == SelectSeqBy(d, k, 1)

\* dict[key] = value: an existing key keeps its position
DictSet(d, v) ==
    IF DictHas(d, v.message_id)
    THEN [i \in 1..Len(d) |-> IF d[i].message_id = v.message_id THEN v ELSE d[i]]
    ELSE Append(d, v)

RECURSIVE DictUpdate(_, _)
\* dict.update({ad.message_id: ad for ad in ads})
DictUpdate(d, ads) ==
    IF ads = <<>> THEN d ELSE DictUpdate(DictSet(d, Head(ads)), Tail(ads))

DictKeys(d) == {d[i].message_id : i \in 1..Len(d)}

RECURSIVE MapDocs(_)
\* __fetch_db_state: one Airdrop per document, in cursor order
MapDocs(docs) ==
    IF docs = <<>> THEN <<>> ELSE <<from_doc(Head(docs))>> \o MapDocs(Tail(docs))

RECURSIVE DeleteOne(_, _)
\* airdrops.delete_one({'_id': id}): no-op when absent
DeleteOne(docs, id) ==
    IF docs = <<>> THEN <<>>
    ELSE IF Head(docs).id = id THEN Tail(docs)
    ELSE <<Head(docs)>> \o DeleteOne(Tail(docs), id)

DbIds == {db[i].id : i \in 1..Len(db)}

RECURSIVE Ended(_)
\* the scan of frame: the cached airdrops that have ended, in dict order
Ended(d) ==
    IF d = <<>> THEN <<>>
    ELSE (IF hasEnded(Head(d)) THEN <<Head(d)>> ELSE <<>>) \o Ended(Tail(d))

\* get_airdrop(message_id) for an int argument: ad = self._state.get(
\* message_id), None (NoAirdrop) when the key is absent
get_airdrop(message_id) ==
    IF DictHas(_state, message_id) THEN DictGet(_state, message_id) ELSE NoAirdrop

\* get_airdrop with the check `if not ad` left out
get_airdrop_never_raises(message_id) == FALSE

\* get_airdrop(message_id): `if not ad: raise AirdropNotFound`
get_airdrop_raises(message_id) == get_airdrop(message_id) = NoAirdrop

\* the ids self.resolve was called on in the pass of sweep p
tried(p) == due[p] \ DictKeys(to_resolve[p])

\* no call ended in the latest step
NoCall ==
    [proc |-> "", id |-> 0, exc |-> "", args |-> NoRequest,
     due |-> {}, tried |-> {}, retry |-> {}]

\* ------------------------------------------------------------------- Init
Init ==
    /\ _state = <<>>
    /\ db = <<>>
    /\ now = 0
    /\ nextId = 1
    /\ distributed = [i \in Ids |-> 0]
    /\ unpinned = [i \in Ids |-> 0]
    /\ cancelled = [i \in Ids |-> 0]
    /\ failures = 0
    /\ pc = [p \in Procs |-> "idle"]
    /\ airdrop = [p \in Procs |-> NoAirdrop]
    /\ req = NoRequest
    /\ fetched = [p \in Sweepers |-> <<>>]
    /\ to_resolve = [p \in Sweepers |-> <<>>]
    /\ due = [p \in Sweepers |-> {}]
    /\ retry = [p \in Sweepers |-> {}]
    /\ failed = {}
    /\ last = NoCall

\* --------------------------------------------------- coroutine bookkeeping
\* the call of coroutine p about message id ends: it returns ("ok") or
\* raises exc
Finish(p, id, exc) ==
    /\ pc' = [pc EXCEPT ![p] = "idle"]
    /\ airdrop' = [airdrop EXCEPT ![p] = NoAirdrop]
    /\ last' = [proc |-> p, id |-> id, exc |-> exc,
                args |-> IF p = "create" THEN req ELSE NoRequest,
                due |-> IF p \in Sweepers THEN due[p] ELSE {},
                tried |-> IF p \in Sweepers THEN tried(p) ELSE {},
                retry |-> IF p \in Sweepers THEN retry[p] ELSE {}]
    /\ IF p \in Sweepers
       THEN /\ to_resolve' = [to_resolve EXCEPT ![p] = <<>>]
            /\ due' = [due EXCEPT ![p] = {}]
            /\ retry' = [retry EXCEPT ![p] = {}]
       ELSE UNCHANGED <<to_resolve, due, retry>>

\* the coroutines suspended at an await
InFlight == Cardinality({p \in Procs : pc[p] # "idle"})

\* coroutine p suspends at the await named at
Await(p, at) ==
    /\ pc' = [pc EXCEPT ![p] = at]
    /\ last' = NoCall

\* an external call may raise while the failure budget lasts
MayRaise == failures < MaxFailures

\* -------------------------------------------------------------- _remove
\* _remove up to its first await: get_airdrop(entity) returns the entity,
\* then del self._state[airdrop.message_id] raises KeyError when absent
remove_raises(ad) == ~DictHas(_state, ad.message_id)

\* await ...get_partial_message(message_id).unpin(...) raises: _remove, and
\* with it cancel, resolve or frame, ends before delete_one
remove_unpin_raises(p) ==
    /\ pc[p] = "unpin"
    /\ MayRaise
    /\ failures' = failures + 1
    /\ Finish(p, airdrop[p].message_id, "HTTPException")
    /\ UNCHANGED <<_state, db, now, nextId, distributed, unpinned, cancelled,
                   req, fetched, failed>>

\* unpin returns and delete_one is applied by the store.  The return of
\* unpin changes nothing another coroutine reads, so the two awaits are one
\* step (the step of the store's deletion).
remove_effect(p) ==
    /\ unpinned' = [unpinned EXCEPT ![airdrop[p].message_id] = @ + 1]
    /\ db' = DeleteOne(db, airdrop[p].message_id)

\* frame: `for ad in to_resolve: await self.resolve(ad)` takes its next
\* entry, up to the await of ad.resolve(bot); get_airdrop(ad) returns ad
frame_dispatch(p, rest) ==
    /\ Await(p, "distribute")
    /\ airdrop' = [airdrop EXCEPT ![p] = Head(rest)]
    /\ to_resolve' = [to_resolve EXCEPT ![p] = Tail(rest)]

\* _remove completes inside resolve: resolve returns, and a frame that
\* called it takes the next entry of to_resolve or returns
remove_delete_one(p) ==
    /\ p # "cancel"
    /\ pc[p] = "unpin"
    /\ remove_effect(p)
    /\ IF p \in Sweepers /\ to_resolve[p] # <<>>
       THEN /\ frame_dispatch(p, to_resolve[p])
            /\ UNCHANGED <<due, retry>>
       ELSE Finish(p, IF p \in Sweepers THEN 0 ELSE airdrop[p].message_id, "ok")
    /\ UNCHANGED <<_state, now, nextId, distributed, cancelled, failures, req,
                   fetched, failed>>

\* --------------------------------------------------------------- cancel
\* cancel(message_id) up to the first await inside _remove
cancel_call(p, message_id) ==
    /\ p = "cancel"
    /\ pc[p] = "idle"
    /\ InFlight < MaxInFlight
    /\ IF get_airdrop_raises(message_id)
       THEN /\ Finish(p, message_id, "AirdropNotFound")
            /\ UNCHANGED _state
       ELSE /\ airdrop' = [airdrop EXCEPT ![p] = get_airdrop(message_id)]
            /\ _state' = DictDel(_state, message_id)
            /\ Await(p, "unpin")
            /\ UNCHANGED <<to_resolve, due, retry>>
    /\ UNCHANGED <<db, now, nextId, distributed, unpinned, cancelled, failures,
                   req, fetched, failed>>

\* _remove completes inside cancel, then fetch_channel, fetch_message,
\* message.unpin and message.edit(embed=cancel_embed) render the
\* cancellation.  None of these calls changes what another coroutine reads,
\* so they are one step with the store's deletion.
cancel_render(p) ==
    /\ p = "cancel"
    /\ pc[p] = "unpin"
    /\ remove_effect(p)
    /\ cancelled' = [cancelled EXCEPT ![airdrop[p].message_id] = @ + 1]
    /\ Finish(p, airdrop[p].message_id, "ok")
    /\ UNCHANGED <<_state, now, nextId, distributed, failures, req, fetched,
                   failed>>

\* as cancel_render, but one of the rendering calls raises
cancel_render_raises(p) ==
    /\ p = "cancel"
    /\ pc[p] = "unpin"
    /\ MayRaise
    /\ failures' = failures + 1
    /\ remove_effect(p)
    /\ Finish(p, airdrop[p].message_id, "HTTPException")
    /\ UNCHANGED <<_state, now, nextId, distributed, cancelled, req, fetched,
                   failed>>

\* -------------------------------------------------------------- resolve
\* resolve with _remove's cache deletion ahead of the distribution
resolve_removes_first(p, message_id) ==
    /\ p = "resolve"
    /\ pc[p] = "idle"
    /\ InFlight < MaxInFlight
    /\ IF get_airdrop_raises(message_id)
       THEN /\ Finish(p, message_id, "AirdropNotFound")
            /\ UNCHANGED _state
       ELSE /\ airdrop' = [airdrop EXCEPT ![p] = get_airdrop(message_id)]
            /\ _state' = DictDel(_state, message_id)
            /\ Await(p, "distribute")
            /\ UNCHANGED <<to_resolve, due, retry>>
    /\ UNCHANGED <<db, now, nextId, distributed, unpinned, cancelled, failures,
                   req, fetched, failed>>

\* resolve(message_id) up to the await of airdrop.resolve(self.bot)
resolve_call(p, message_id) ==
    /\ p = "resolve"
    /\ pc[p] = "idle"
    /\ InFlight < MaxInFlight
    /\ IF get_airdrop_raises(message_id)
       THEN Finish(p, message_id, "AirdropNotFound")
       ELSE /\ airdrop' = [airdrop EXCEPT ![p] = get_airdrop(message_id)]
            /\ Await(p, "distribute")
            /\ UNCHANGED <<to_resolve, due, retry>>
    /\ UNCHANGED <<_state, db, now, nextId, distributed, unpinned, cancelled,
                   failures, req, fetched, failed>>

\* await airdrop.resolve(self.bot) returns (the funds are distributed) and
\* _remove runs up to its first await
resolve_distribute(p) ==
    /\ pc[p] = "distribute"
    /\ distributed' = [distributed EXCEPT ![airdrop[p].message_id] = @ + 1]
    /\ IF remove_raises(airdrop[p])
       THEN /\ Finish(p, airdrop[p].message_id, "KeyError")
            /\ UNCHANGED _state
       ELSE /\ _state' = DictDel(_state, airdrop[p].message_id)
            /\ Await(p, "unpin")
            /\ UNCHANGED <<airdrop, to_resolve, due, retry>>
    /\ UNCHANGED <<db, now, nextId, unpinned, cancelled, failures, req,
                   fetched, failed>>

\* await airdrop.resolve(self.bot) raises: the Funds Backend failed
resolve_distribute_raises(p) ==
    /\ pc[p] = "distribute"
    /\ MayRaise
    /\ failures' = failures + 1
    /\ failed' = failed \cup {airdrop[p].message_id}
    /\ Finish(p, airdrop[p].message_id, "DistributionFailure")
    /\ UNCHANGED <<_state, db, now, nextId, distributed, unpinned, cancelled,
                   req, fetched>>

\* ---------------------------------------------------------------- frame
\* frame() is called: update -> _fetch -> __fetch_db_state issues find() and
\* the store answers with the documents it holds at that moment
frame_call(p) ==
    /\ p \in Sweepers
    /\ pc[p] = "idle"
    /\ InFlight < MaxInFlight
    /\ Await(p, "fetch")
    /\ fetched' = [fetched EXCEPT ![p] = db]
    /\ to_resolve' = [to_resolve EXCEPT ![p] = <<>>]
    /\ due' = [due EXCEPT ![p] = {}]
    /\ retry' = [retry EXCEPT ![p] = {}]
    /\ UNCHANGED <<_state, db, now, nextId, distributed, unpinned, cancelled,
                   failures, airdrop, req, failed>>

\* _fetch that replaces the cache by what was read: self._state = {...}
_fetch_replaces(docs) == MapDocs(docs)

\* _fetch: self._state.update({ad.message_id: ad for ad in fetched})
_fetch(docs) == DictUpdate(_state, MapDocs(docs))

\* the cursor is exhausted: _fetch merges what was read into _state, frame
\* collects the ended airdrops of _state and dispatches the first of them
frame_scan(p) ==
    /\ pc[p] = "fetch"
    /\ _state' = _fetch(fetched[p])
    /\ fetched' = [fetched EXCEPT ![p] = <<>>]
    /\ IF Ended(_state') = <<>>
       THEN Finish(p, 0, "ok")
       ELSE /\ due' = [due EXCEPT ![p] = DictKeys(Ended(_state'))]
            /\ retry' = [retry EXCEPT ![p] = DictKeys(Ended(_state')) \cap failed]
            /\ frame_dispatch(p, Ended(_state'))
    /\ UNCHANGED <<db, now, nextId, distributed, unpinned, cancelled, failures,
                   req, failed>>

\* ---------------------------------------------------------- new_airdrop
\* ctx.channel, the channel the command was issued in
CtxChannel == 1

\* the message channel.send(embed=embed, view=view) returns
root(channel) == [id |-> nextId, channel |-> channel, guild |-> 1]

\* line 38 of _add_from_message: the Airdrop it constructs
new_Airdrop(message, amount, duration, channel) ==
    from_message(message, amount, int_time + duration, channel)

\* the request r, issued in the current second
Called(r) ==
    [amount |-> r.amount, duration |-> r.duration, channel |-> r.channel,
     at |-> now \div Res]

\* new_airdrop with the funds check after channel.send: the embed is sent
\* (a message id is used up) although can_afford answers False
new_airdrop_sends_unfunded(p, r) ==
    /\ p = "create"
    /\ pc[p] = "idle"
    /\ nextId <= MaxEvents
    /\ InFlight < MaxInFlight
    /\ pc' = pc
    /\ nextId' = nextId + 1
    /\ last' = [NoCall EXCEPT !.proc = p, !.exc = "InsufficientFunds"]
    /\ UNCHANGED <<_state, db, now, distributed, unpinned, cancelled, failures,
                   airdrop, req, fetched, to_resolve, due, retry, failed>>

\* new_airdrop(ctx, amount, duration, channel).  can_afford answers False:
\* insufficient_funds(ctx, amount) and return.  True: ctx.respond,
\* channel.send, then _add_from_message up to the await of insert_one
new_airdrop_call(p, r) ==
    /\ p = "create"
    /\ pc[p] = "idle"
    /\ nextId <= MaxEvents
    /\ InFlight < MaxInFlight
    /\ \/ /\ pc' = pc
          /\ last' = [NoCall EXCEPT !.proc = p, !.exc = "InsufficientFunds"]
          /\ UNCHANGED <<nextId, airdrop, req>>
       \/ LET channel == IF r.channel = 0 THEN CtxChannel ELSE r.channel
          IN /\ airdrop' = [airdrop EXCEPT ![p] =
                   new_Airdrop(root(channel), r.amount, r.duration, channel)]
             /\ nextId' = nextId + 1
             /\ req' = Called(r)
             /\ Await(p, "insert_one")
    /\ UNCHANGED <<_state, db, now, distributed, unpinned, cancelled, failures,
                   fetched, to_resolve, due, retry, failed>>

\* airdrops.insert_one(airdrop.to_db_dict()) is applied by the store, or
\* raises DuplicateKeyError when the _id is taken
add_insert_one(p) ==
    /\ pc[p] = "insert_one"
    /\ IF airdrop[p].message_id \in DbIds
       THEN /\ Finish(p, airdrop[p].message_id, "DuplicateKeyError")
            /\ req' = NoRequest
            /\ UNCHANGED db
       ELSE /\ db' = Append(db, to_db_dict(airdrop[p]))
            /\ Await(p, "put")
            /\ UNCHANGED <<airdrop, req, to_resolve, due, retry>>
    /\ UNCHANGED <<_state, now, nextId, distributed, unpinned, cancelled,
                   failures, fetched, failed>>

\* insert_one returns: self._state[airdrop.message_id] = airdrop, then
\* new_airdrop adds the button, edits and pins the message
add_put(p) ==
    /\ pc[p] = "put"
    /\ _state' = DictSet(_state, airdrop[p])
    /\ Finish(p, airdrop[p].message_id, "ok")
    /\ req' = NoRequest
    /\ UNCHANGED <<db, now, nextId, distributed, unpinned, cancelled, failures,
                   fetched, failed>>

\* ---------------------------------------------------------------- clock
Tick ==
    /\ now < MaxTime
    /\ now' = now + 1
    /\ last' = NoCall
    /\ UNCHANGED <<_state, db, nextId, distributed, unpinned, cancelled,
                   failures, pc, airdrop, req, fetched, to_resolve, due, retry,
                   failed>>

\* ------------------------------------------------------- specifications
Driver == {"frame1"}

\* every operation, on a driver that runs one sweep at a time, with
\* collaborators that may raise
Next ==
    \/ \E id \in Ids : cancel_call("cancel", id)
    \/ cancel_render("cancel")
    \/ cancel_render_raises("cancel")
    \/ \E id \in Ids : resolve_call("resolve", id)
    \/ \E p \in {"resolve"} \cup Driver : resolve_distribute(p)
    \/ \E p \in {"resolve"} \cup Driver : resolve_distribute_raises(p)
    \/ \E p \in {"resolve"} \cup Driver : remove_delete_one(p)
    \/ \E p \in {"cancel", "resolve"} \cup Driver : remove_unpin_raises(p)
    \/ \E p \in Driver : frame_call(p)
    \/ \E p \in Driver : frame_scan(p)
    \/ \E r \in Requests : new_airdrop_call("create", r)
    \/ add_insert_one("create")
    \/ add_put("create")
    \/ Tick

Spec == Init /\ [][Next]_vars

\* every operation, with collaborators that never raise
NextReliable ==
    \/ \E id \in Ids : cancel_call("cancel", id)
    \/ cancel_render("cancel")
    \/ \E id \in Ids : resolve_call("resolve", id)
    \/ \E p \in {"resolve"} \cup Driver : resolve_distribute(p)
    \/ \E p \in {"resolve"} \cup Driver : remove_delete_one(p)
    \/ \E p \in Driver : frame_call(p)
    \/ \E p \in Driver : frame_scan(p)
    \/ \E r \in Requests : new_airdrop_call("create", r)
    \/ add_insert_one("create")
    \/ add_put("create")
    \/ Tick

SpecReliable == Init /\ [][NextReliable]_vars

\* create, then cancel before expiry, and the sweep: cancel is called only
\* once create has returned and on an airdrop that has not ended, resolve
\* is never called by hand, and the collaborators never raise
NextSweep ==
    \/ \E id \in Ids :
          /\ pc["create"] = "idle"
          /\ ~hasEnded(get_airdrop(id))
          /\ cancel_call("cancel", id)
    \/ cancel_render("cancel")
    \/ \E p \in Driver : resolve_distribute(p)
    \/ \E p \in Driver : remove_delete_one(p)
    \/ \E p \in Driver : frame_call(p)
    \/ \E p \in Driver : frame_scan(p)
    \/ \E r \in Requests : new_airdrop_call("create", r)
    \/ add_insert_one("create")
    \/ add_put("create")
    \/ Tick

SpecSweep == Init /\ [][NextSweep]_vars

\* await airdrop.resolve(self.bot) raises again for an event whose
\* distribution has raised before: a Funds Backend that fails for that
\* event on every attempt
resolve_distribute_raises_again(p) ==
    /\ pc[p] = "distribute"
    /\ airdrop[p].message_id \in failed
    /\ Finish(p, airdrop[p].message_id, "DistributionFailure")
    /\ UNCHANGED <<_state, db, now, nextId, distributed, unpinned, cancelled,
                   failures, req, fetched, failed>>

\* create and the sweep, with a Funds Backend that fails for at most one
\* event, on every attempt, and succeeds for every other event
NextLive ==
    \/ \E p \in Driver :
          /\ airdrop[p].message_id \notin failed
          /\ resolve_distribute(p)
    \/ \E p \in Driver : resolve_distribute_raises(p)
    \/ \E p \in Driver : resolve_distribute_raises_again(p)
    \/ \E p \in Driver : remove_delete_one(p)
    \/ \E p \in Driver : frame_call(p)
    \/ \E p \in Driver : frame_scan(p)
    \/ \E r \in Requests : new_airdrop_call("create", r)
    \/ add_insert_one("create")
    \/ add_put("create")
    \/ Tick

\* the driver calls frame() again and again, every awaited call of the
\* sweep and of create returns, and time passes
LiveFairness ==
    /\ \A p \in Driver :
          /\ WF_vars(frame_call(p))
          /\ WF_vars(frame_scan(p))
          /\ WF_vars(airdrop[p].message_id \notin failed /\ resolve_distribute(p))
          /\ WF_vars(resolve_distribute_raises_again(p))
          /\ WF_vars(remove_delete_one(p))
    /\ WF_vars(add_insert_one("create"))
    /\ WF_vars(add_put("create"))
    /\ WF_vars(Tick)

SpecLive == Init /\ [][NextLive]_vars /\ LiveFairness

\* create and the sweep, with a driver that may call frame() while an
\* earlier call of it is suspended at an await; no collaborator raises
NextOverlap ==
    \/ \E p \in Sweepers : resolve_distribute(p)
    \/ \E p \in Sweepers : remove_delete_one(p)
    \/ \E p \in Sweepers : frame_call(p)
    \/ \E p \in Sweepers : frame_scan(p)
    \/ \E r \in Requests : new_airdrop_call("create", r)
    \/ add_insert_one("create")
    \/ add_put("create")
    \/ Tick

SpecOverlap == Init /\ [][NextOverlap]_vars

\* ---------------------------------------------------------------- claims
\* no coroutine is suspended inside _add_from_message or _remove
NoCreateOrRemoveInFlight ==
    /\ pc["create"] = "idle"
    /\ \A p \in Procs : pc[p] # "unpin"

\* every coroutine of the manager has returned
Quiescent == \A p \in Procs : pc[p] = "idle"

\* message id has been handed out by channel.send
Created(id) == id < nextId

\* a _remove of id has run to its end (unpin and delete_one both returned)
Removed(id) == unpinned[id] >= 1

\* C1: when cancel(id) and resolve(id) race on a cached event, exactly one
\* side effect happens for it: the funds are distributed or the
\* cancellation is rendered, never both, and not neither once both calls
\* have returned and the event is gone.
C1_ExactlyOneSideEffect ==
    \A id \in Ids :
        /\ ~(distributed[id] >= 1 /\ cancelled[id] >= 1)
        /\ (Quiescent /\ Created(id) /\ Removed(id))
              => distributed[id] + cancelled[id] = 1

\* C2: the funds of one event id are distributed at most once, whatever
\* the interleaving of create, cancel, resolve, refresh and sweep.
C2_DistributedAtMostOnce == \A id \in Ids : distributed[id] <= 1

\* the step is the start of a call of cancel or resolve by coroutine p
\* that goes on to its first await / that ends at once
CallGoesOn(p) == pc[p] = "idle" /\ pc'[p] # "idle"
CallEndsAtOnce(p) == pc[p] = "idle" /\ last'.proc = p

\* C3: resolve(id) and cancel(id) on an id absent from the cache raise
\* AirdropNotFound at once, change neither _state nor the store, and call
\* neither the Funds Backend nor the Notifier: a call goes on to an await
\* only for an id that is cached, and a call that ends at once was on an
\* absent id, raised AirdropNotFound and changed nothing.
C3_AbsentIdNotFound ==
    [][\A p \in {"cancel", "resolve"} :
          /\ CallGoesOn(p) => DictHas(_state, airdrop'[p].message_id)
          /\ CallEndsAtOnce(p)
                => /\ ~DictHas(_state, last'.id)
                   /\ last'.exc = "AirdropNotFound"
                   /\ UNCHANGED <<_state, db, distributed, unpinned, cancelled>>]_vars

\* C3 witness: a call on the id of an event that was created and then
\* removed has just raised AirdropNotFound
C3_Witness ==
    /\ last.proc \in {"cancel", "resolve"}
    /\ last.exc = "AirdropNotFound"
    /\ Created(last.id)
    /\ Removed(last.id)

\* C4: whenever no create and no remove is in flight, the ids of the cache
\* are the ids of the store.
C4_CacheEqualsStore ==
    NoCreateOrRemoveInFlight => DictKeys(_state) = DbIds

\* a pass of the sweep has ended in the latest step
PassEnded == last.proc \in Sweepers

\* C5: a Funds Backend failure inside resolve removes the event from
\* neither the cache nor the store, and the next sweep calls resolve on it
\* again: every pass calls resolve on each of its due events whose
\* distribution had raised before.
C5_FailedDistributionRetried ==
    [][/\ \A p \in Procs :
             resolve_distribute_raises(p) => UNCHANGED <<_state, db>>
       /\ PassEnded' => last'.retry \subseteq last'.tried]_vars

\* C6: a failure while resolving one due event does not abort the pass:
\* when a pass ends in which the resolve of message last.id raised, resolve
\* has been called on every other event that was due in the pass.
C6_FailureDoesNotAbortPass ==
    (PassEnded /\ last.exc # "ok") => (last.due \ {last.id}) \subseteq last.tried

\* C7: a sweep calls resolve on exactly the cached events (after its
\* refresh) whose end_time is not later than the current time: the pass
\* takes exactly those as due, and when it ends it has called resolve on
\* all of them and on no other.
C7_SweepResolvesExactlyDue ==
    [][/\ \A p \in Sweepers :
             pc[p] = "fetch" /\ pc'[p] = "distribute"
                => due'[p] = {_state'[i].message_id : i \in
                                {j \in 1..Len(_state') :
                                    _state'[j].end_time * Res <= now}}
       /\ \A p \in Sweepers :
             pc[p] = "fetch" /\ pc'[p] = "idle"
                => \A i \in 1..Len(_state') : _state'[i].end_time * Res > now
       /\ PassEnded' => last'.tried = last'.due]_vars

\* C8: after a successful cancel the event is absent from the cache and
\* from the store, and its funds are never distributed, by the cancel or
\* by a later sweep.
C8_CancelledNeverDistributed ==
    \A id \in Ids :
        (cancelled[id] >= 1 /\ pc["cancel"] = "idle")
            => /\ ~DictHas(_state, id)
               /\ id \notin DbIds
               /\ distributed[id] = 0

\* C9: an event removed by a cancel or a resolve never becomes live again:
\* no refresh or sweep puts its id back into the cache, and it is not both
\* cancelled and resolved.
C9_NeverLiveAgain ==
    [][\A id \in Ids :
          Removed(id)
             => /\ ~DictHas(_state', id)
                /\ ~(cancelled'[id] >= 1 /\ distributed'[id] >= 1)]_vars

\* C10: when create returns, the cache holds under the message's id an
\* airdrop with that id, the channel and the amount of the request,
\* end_time = creation second + duration and no entrants, and the store
\* holds the same record.
C10_CreateRoundTrip ==
    (last.proc = "create" /\ last.exc = "ok")
        => /\ DictHas(_state, last.id)
           /\ LET ad == get_airdrop(last.id)
              IN /\ ad.message_id = last.id
                 /\ ad.channel_id = (IF last.args.channel = 0 THEN CtxChannel
                                     ELSE last.args.channel)
                 /\ ad.amount = last.args.amount
                 /\ ad.end_time = last.args.at + last.args.duration
                 /\ ad.entrants = {}
                 /\ \E i \in 1..Len(db) : db[i] = to_db_dict(ad)

\* C11: when can_afford answers False, new_airdrop ends without creating
\* any state: the cache and the store are unchanged, no message is sent
\* for the event (no message id is used up), no coroutine is left in
\* flight and no other side effect is recorded.
C11_InsufficientFundsNoState ==
    [][(last'.proc = "create" /\ last'.exc = "InsufficientFunds")
          => UNCHANGED <<_state, db, nextId, pc, airdrop, req, distributed,
                         unpinned, cancelled>>]_vars

\* C11 witness: a request has just been refused for insufficient funds
\* while the cache and the store hold an event
C11_Witness ==
    /\ last.proc = "create"
    /\ last.exc = "InsufficientFunds"
    /\ _state # <<>>
    /\ db # <<>>

\* C12: a resolve(id) called by hand that returns normally has had the
\* funds of the event distributed, and when it returns the event is absent
\* from the cache and from the store.
C12_ResolveDistributesAndRemoves ==
    (last.proc = "resolve" /\ last.exc = "ok")
        => /\ distributed[last.id] >= 1
           /\ ~DictHas(_state, last.id)
           /\ last.id \notin DbIds

\* C13: the removal from the cache decides who acts.  The funds of an
\* event are distributed only by a call that takes its entry out of the
\* cache, and a call of cancel or resolve that finds the entry gone ends
\* with AirdropNotFound and with no distribution, cancellation notice or
\* unpin of its own.
C13_RemovalIsLinearizationPoint ==
    [][/\ \A id \in Ids :
             distributed'[id] > distributed[id]
                => DictHas(_state, id) /\ ~DictHas(_state', id)
       /\ (/\ last'.proc \in {"cancel", "resolve"}
           /\ last'.exc \in {"AirdropNotFound", "KeyError"})
             => /\ last'.exc = "AirdropNotFound"
                /\ UNCHANGED <<distributed, cancelled, unpinned>>]_vars

\* the step is taken by coroutine p
Acts(p) == pc'[p] # pc[p] \/ last'.proc = p

\* C14: a resolve (called by hand or by the sweep) takes an event out of
\* the cache only in the stretch in which its distribution has returned,
\* and out of the store only after that: no step of a resolve removes an
\* id from _state or from the store while the distribution of that call is
\* still awaited or has raised.
C14_RemovedOnlyAfterDistribution ==
    [][\A p \in {"resolve"} \cup Sweepers : \A id \in Ids :
          Acts(p)
             => /\ (DictHas(_state, id) /\ ~DictHas(_state', id))
                      => /\ pc[p] = "distribute"
                         /\ distributed'[id] = distributed[id] + 1
                /\ (id \in DbIds /\ id \notin DbIds')
                      => /\ pc[p] = "unpin"
                         /\ airdrop[p].message_id = id
                         /\ distributed[id] >= 1]_vars

\* C14 witness: a resolve called by hand has returned normally after one
\* distribution, with the event gone from the cache and from the store
C14_Witness ==
    /\ last.proc = "resolve"
    /\ last.exc = "ok"
    /\ distributed[last.id] = 1
    /\ ~DictHas(_state, last.id)
    /\ last.id \notin DbIds

\* the step is a call resolve(ad) with an entity, made by sweep p, that
\* goes on to the await of the distribution
EntityCallGoesOn(p) == pc[p] # "distribute" /\ pc'[p] = "distribute"

\* C15: resolve called with an entity whose id is no longer in the cache
\* is refused like the call by id: a call by entity (the sweep's
\* `await self.resolve(ad)`) goes on to the Funds Backend only for an
\* entity whose id is in the cache when the call is made.
C15_StaleEntityNotFound ==
    [][\A p \in Sweepers :
          EntityCallGoesOn(p) => DictHas(_state', airdrop'[p].message_id)]_vars

\* event id is gone from the cache and from the store
Gone(id) == ~DictHas(_state, id) /\ id \notin DbIds

\* C16: under repeated sweeps, every event that is cached and due is
\* eventually gone from the cache and from the store, unless it is the
\* event whose distribution fails on every attempt - even while the
\* distribution of another due event keeps failing.
C16_DueEventEventuallyGone ==
    \A id \in Ids :
        (DictHas(_state, id) /\ hasEnded(get_airdrop(id)))
            ~> (Gone(id) \/ id \in failed)

\* sweep q is suspended at an external call of a resolve it dispatched
InResolve(q) == pc[q] \in {"distribute", "unpin"}

\* the step is sweep p merging the store's records into the cache
Refreshes(p) == pc[p] = "fetch" /\ pc'[p] # "fetch"

\* C17: sweeps never overlap: while one sweep is suspended inside a
\* resolve, no other sweep refreshes the cache or dispatches a resolve.
C17_SweepsNeverOverlap ==
    [][\A p \in Sweepers : \A q \in Sweepers \ {p} :
          InResolve(q) => ~Refreshes(p) /\ ~EntityCallGoesOn(p)]_vars

\* the step is sweep p issuing find() on the store
Reads(p) == pc[p] = "idle" /\ pc'[p] = "fetch"

\* the cache d holds the record of document doc, with its field values
Holds(d, doc) == \E j \in 1..Len(d) : d[j] = from_doc(doc)

C19_StoreBeforeCache ==
    [][/\ pc["create"] \in {"insert_one", "put"}
             => (DictHas(_state', airdrop["create"].message_id)
                    => airdrop["create"].message_id \in DbIds')
       /\ (pc["create"] = "insert_one" /\ last'.exc = "DuplicateKeyError")
             => UNCHANGED <<_state, db>>]_vars

\* C20: when a Notifier call of cancel or resolve raises (the unpin inside
\* _remove included), the cache and the store still agree, once the
\* failed call has returned, on whether the event exists.
C20_NotifierFailureKeepsAgreement ==
    (last.proc \in {"cancel", "resolve"} /\ last.exc = "HTTPException")
        => (DictHas(_state, last.id) <=> last.id \in DbIds)

====
